---- MODULE Spec2Model ----
(***************************************************************************)
(* Model of tools/bench_analyze.py: BENCH log lines are parsed into        *)
(* BenchRow records, strong- and weak-scaling metric rows are derived from *)
(* them, and the rows are written to bench_metrics.csv.                    *)
(*                                                                         *)
(* A log line is represented by its whitespace-separated fields: the       *)
(* leading token and the text of each key=value field.  A text is a        *)
(* sequence of one-character strings.  Floating-point values are exact     *)
(* rationals [num, den] in lowest terms.                                   *)
(***************************************************************************)
EXTENDS Integers, Sequences, FiniteSets, TLC

VARIABLES lines, pc, rows, out, metrics, csv, err

vars == <<lines, pc, rows, out, metrics, csv, err>>

\* Bounds of the explored inputs.
MaxLines == 3
MaxParseLines == 2

-----------------------------------------------------------------------------
\* Texts and numbers

DigitChars == <<"0", "1", "2", "3", "4", "5", "6", "7", "8", "9">>

Digits == {DigitChars[i] : i \in 1..Len(DigitChars)}

DigitVal(c) == (CHOOSE i \in 1..Len(DigitChars) : DigitChars[i] = c) - 1

\* \d+
IsDigits(t) == Len(t) > 0 /\ \A i \in 1..Len(t) : t[i] \in Digits

\* [0-9.]+
IsFloatChars(t) == Len(t) > 0 /\ \A i \in 1..Len(t) : t[i] \in Digits \cup {"."}

RECURSIVE IntOf(_)
IntOf(t) == IF Len(t) = 0 THEN 0
            ELSE 10 * IntOf(SubSeq(t, 1, Len(t) - 1)) + DigitVal(t[Len(t)])

RECURSIVE Pow10(_)
Pow10(k) == IF k = 0 THEN 1 ELSE 10 * Pow10(k - 1)

RECURSIVE GCD(_, _)
GCD(a, b) == IF b = 0 THEN a ELSE GCD(b, a % b)

Rat(n, d) == LET g == GCD(n, d) IN [num |-> n \div g, den |-> d \div g]

Zero == Rat(0, 1)
One == Rat(1, 1)

RatDiv(a, b) == Rat(a.num * b.den, a.den * b.num)
RatDivInt(a, k) == Rat(a.num, a.den * k)
RatLess(a, b) == a.num * b.den < b.num * a.den
RatPos(a) == a.num > 0

DotCount(t) == Cardinality({i \in 1..Len(t) : t[i] = "."})
StripDots(t) == SelectSeq(t, LAMBDA c : c # ".")

\* float(text) on a text of [0-9.]+ succeeds iff it has at most one dot and a digit.
FloatOk(t) == DotCount(t) <= 1 /\ Len(StripDots(t)) > 0

FracDigits(t) == IF DotCount(t) = 0 THEN 0
                 ELSE Len(t) - (CHOOSE i \in 1..Len(t) : t[i] = ".")

FloatOf(t) == Rat(IntOf(StripDots(t)), Pow10(FracDigits(t)))

-----------------------------------------------------------------------------
\* Records

BENCH_RE(l) ==
    /\ l.head = "BENCH"
    /\ l.version # ""
    /\ IsDigits(l.n_bats)
    /\ IsDigits(l.iters)
    /\ IsDigits(l.procs)
    /\ IsDigits(l.threads)
    /\ IsFloatChars(l.time_s)

BenchRow(l) ==
    [version |-> l.version,
     n_bats  |-> IntOf(l.n_bats),
     iters   |-> IntOf(l.iters),
     procs   |-> IntOf(l.procs),
     threads |-> IntOf(l.threads),
     time_s  |-> FloatOf(l.time_s)]

p_swapped(r) == IF r.version = "openmp" THEN r.procs
                ELSE IF r.version = "mpi" THEN r.threads
                ELSE 1

p(r) == IF r.version = "openmp" THEN r.threads
        ELSE IF r.version = "mpi" THEN r.procs
        ELSE 1

\* The result of parse_lines: the rows, or the ValueError float() raises.
RECURSIVE parse_lines(_)
parse_lines(ls) ==
    IF Len(ls) = 0 THEN [rows |-> <<>>, err |-> "none"]
    ELSE LET l == Head(ls) IN
         IF ~BENCH_RE(l) THEN parse_lines(Tail(ls))
         ELSE IF ~FloatOk(l.time_s) THEN [rows |-> <<>>, err |-> "ValueError"]
         ELSE LET rest == parse_lines(Tail(ls)) IN
              IF rest.err # "none" THEN rest
              ELSE [rows |-> <<BenchRow(l)>> \o rest.rows, err |-> "none"]

-----------------------------------------------------------------------------
\* Baselines

Range(s) == {s[i] : i \in 1..Len(s)}

RECURSIVE MinTime(_)
MinTime(rs) ==
    IF Len(rs) = 1 THEN rs[1].time_s
    ELSE LET m == MinTime(Tail(rs)) IN
         IF RatLess(m, rs[1].time_s) THEN m ELSE rs[1].time_s

\* <<>> stands for the raised SystemExit, <<t>> for the returned time.
find_baseline(rs, n_bats, iters) ==
    LET candidates == SelectSeq(rs, LAMBDA r :
            r.version = "sequential" /\ r.n_bats = n_bats /\ r.iters = iters)
    IN IF Len(candidates) = 0 THEN <<>> ELSE <<MinTime(candidates)>>

find_self_baseline_any_p(rs, version, n_bats, iters) ==
    LET candidates == SelectSeq(rs, LAMBDA r :
            r.version = version /\ r.n_bats = n_bats /\ r.iters = iters)
    IN IF Len(candidates) = 0 THEN <<>> ELSE <<MinTime(candidates)>>

\* <<>> stands for None.
find_self_baseline(rs, version, n_bats, iters) ==
    LET candidates == SelectSeq(rs, LAMBDA r :
            r.version = version /\ r.n_bats = n_bats /\ r.iters = iters /\ p(r) = 1)
    IN IF Len(candidates) = 0 THEN <<>> ELSE <<MinTime(candidates)>>

MinByNBats_first(rs) == rs[1]

\* min(rs, key=lambda r: r.n_bats): the first row with the smallest n_bats.
MinByNBats(rs) ==
    LET i == CHOOSE i \in 1..Len(rs) :
                 /\ \A j \in 1..Len(rs) : rs[i].n_bats <= rs[j].n_bats
                 /\ \A j \in 1..(i - 1) : rs[j].n_bats > rs[i].n_bats
    IN rs[i]

\* <<>> stands for None.
_weak_baseline(rs, iters, version) ==
    LET seq == SelectSeq(rs, LAMBDA r :
                   r.iters = iters /\ r.version = "sequential" /\ p(r) = 1)
        same == SelectSeq(rs, LAMBDA r :
                   r.iters = iters /\ r.version = version /\ p(r) = 1)
    IN IF Len(seq) > 0 THEN <<MinByNBats(seq)>>
       ELSE IF Len(same) > 0 THEN <<MinByNBats(same)>>
       ELSE <<>>

-----------------------------------------------------------------------------
\* Strong scaling

strong_keys_single(rs) ==
    {<<r.version, r.n_bats, r.iters>> : r \in {x \in Range(rs) : x.version # "sequential"}}

strong_keys(rs) ==
    LET nonseq == {r \in Range(rs) : r.version # "sequential"}
        keys == {<<r.version, r.n_bats, r.iters>> : r \in nonseq}
        by_key(k) == {p(r) : r \in {x \in nonseq : <<x.version, x.n_bats, x.iters>> = k}}
    IN {k \in keys : Cardinality(by_key(k)) >= 2}

\* The sizes that have a sequential baseline (the keys of `baselines`).
baselines(rs) ==
    {s \in {<<r.n_bats, r.iters>> : r \in Range(rs)} :
        Len(find_baseline(rs, s[1], s[2])) > 0}

StrongKept(rs, r) ==
    /\ r.version # "sequential" => <<r.version, r.n_bats, r.iters>> \in strong_keys(rs)
    /\ <<r.n_bats, r.iters>> \in baselines(rs)

StrongRow_undivided(rs, r) ==
    LET t_seq1 == find_baseline(rs, r.n_bats, r.iters)[1]
        self == find_self_baseline(rs, r.version, r.n_bats, r.iters)
        t_self1 == IF Len(self) = 0 THEN t_seq1 ELSE self[1]
        speedup_seq == IF RatPos(r.time_s) THEN RatDiv(t_seq1, r.time_s) ELSE Zero
        speedup_self == IF RatPos(r.time_s) THEN RatDiv(t_self1, r.time_s) ELSE Zero
    IN [mode |-> "strong", version |-> r.version, n_bats |-> r.n_bats,
        iters |-> r.iters, procs |-> r.procs, threads |-> r.threads,
        p |-> p(r), time_s |-> r.time_s, baseline_n_bats |-> r.n_bats,
        T_base_s |-> t_seq1, T_seq1_s |-> t_seq1, T_self1_s |-> t_self1,
        speedup |-> speedup_self, efficiency |-> speedup_self,
        speedup_seq |-> speedup_seq, efficiency_seq |-> speedup_seq,
        speedup_self |-> speedup_self, efficiency_self |-> speedup_self]

StrongRow(rs, r) ==
    LET t_seq1 == find_baseline(rs, r.n_bats, r.iters)[1]
        self == find_self_baseline(rs, r.version, r.n_bats, r.iters)
        t_self1 == IF Len(self) = 0 THEN t_seq1 ELSE self[1]
        speedup_seq == IF RatPos(r.time_s) THEN RatDiv(t_seq1, r.time_s) ELSE Zero
        eff_seq == IF p(r) > 0 THEN RatDivInt(speedup_seq, p(r)) ELSE Zero
        speedup_self == IF RatPos(r.time_s) THEN RatDiv(t_self1, r.time_s) ELSE Zero
        eff_self == IF p(r) > 0 THEN RatDivInt(speedup_self, p(r)) ELSE Zero
    IN [mode |-> "strong", version |-> r.version, n_bats |-> r.n_bats,
        iters |-> r.iters, procs |-> r.procs, threads |-> r.threads,
        p |-> p(r), time_s |-> r.time_s, baseline_n_bats |-> r.n_bats,
        T_base_s |-> t_seq1, T_seq1_s |-> t_seq1, T_self1_s |-> t_self1,
        speedup |-> speedup_self, efficiency |-> eff_self,
        speedup_seq |-> speedup_seq, efficiency_seq |-> eff_seq,
        speedup_self |-> speedup_self, efficiency_self |-> eff_self]

_strong_metrics(rs) ==
    LET kept == SelectSeq(rs, LAMBDA r : StrongKept(rs, r))
    IN [i \in 1..Len(kept) |-> StrongRow(rs, kept[i])]

-----------------------------------------------------------------------------
\* Weak scaling

\* The version labels of the model in the order Python's sorted() gives them.
VersionsSorted == <<"cuda", "mpi", "openmp", "sequential">>

RECURSIVE SortedInts(_)
SortedInts(S) ==
    IF S = {} THEN <<>>
    ELSE LET m == CHOOSE x \in S : \A y \in S : x <= y
         IN <<m>> \o SortedInts(S \ {m})

WeakRow_guard_one(r, base_n, t_base_seq, t_base_self) ==
    LET weak_eff_seq == IF RatPos(r.time_s) THEN RatDiv(t_base_seq, r.time_s) ELSE One
        weak_eff_self == IF RatPos(r.time_s) THEN RatDiv(t_base_self, r.time_s) ELSE One
    IN [mode |-> "weak", version |-> r.version, n_bats |-> r.n_bats,
        iters |-> r.iters, procs |-> r.procs, threads |-> r.threads,
        p |-> p(r), time_s |-> r.time_s, baseline_n_bats |-> base_n,
        T_base_s |-> t_base_seq, T_seq1_s |-> t_base_seq, T_self1_s |-> t_base_self,
        speedup |-> weak_eff_self, efficiency |-> weak_eff_self,
        speedup_seq |-> weak_eff_seq, efficiency_seq |-> weak_eff_seq,
        speedup_self |-> weak_eff_self, efficiency_self |-> weak_eff_self]

WeakRow(r, base_n, t_base_seq, t_base_self) ==
    LET weak_eff_seq == IF RatPos(r.time_s) THEN RatDiv(t_base_seq, r.time_s) ELSE Zero
        weak_eff_self == IF RatPos(r.time_s) THEN RatDiv(t_base_self, r.time_s) ELSE Zero
    IN [mode |-> "weak", version |-> r.version, n_bats |-> r.n_bats,
        iters |-> r.iters, procs |-> r.procs, threads |-> r.threads,
        p |-> p(r), time_s |-> r.time_s, baseline_n_bats |-> base_n,
        T_base_s |-> t_base_seq, T_seq1_s |-> t_base_seq, T_self1_s |-> t_base_self,
        speedup |-> weak_eff_self, efficiency |-> weak_eff_self,
        speedup_seq |-> weak_eff_seq, efficiency_seq |-> weak_eff_seq,
        speedup_self |-> weak_eff_self, efficiency_self |-> weak_eff_self]

BaselineRow(baseline, base_n, t_base_seq, t_base_self) ==
    [mode |-> "weak", version |-> baseline.version, n_bats |-> baseline.n_bats,
     iters |-> baseline.iters, procs |-> baseline.procs, threads |-> baseline.threads,
     p |-> 1, time_s |-> baseline.time_s, baseline_n_bats |-> base_n,
     T_base_s |-> t_base_seq, T_seq1_s |-> t_base_seq, T_self1_s |-> t_base_self,
     speedup |-> One, efficiency |-> One,
     speedup_seq |-> One, efficiency_seq |-> One,
     speedup_self |-> One, efficiency_self |-> One]

\* The rows one (iters, version) iteration of the loops appends to `out`.
WeakGroup(rs, iters, version) ==
    LET baseline_seq == _weak_baseline(rs, iters, version)
        same == SelectSeq(rs, LAMBDA r :
                   r.iters = iters /\ r.version = version /\ p(r) = 1)
        baseline_self == IF Len(same) > 0 THEN <<MinByNBats(same)>> ELSE baseline_seq
    IN IF version = "sequential" \/ Len(baseline_seq) = 0 THEN <<>>
       ELSE LET baseline == baseline_seq[1]
                t_base_seq == baseline.time_s
                base_n == baseline.n_bats
                t_base_self == IF Len(baseline_self) > 0 THEN baseline_self[1].time_s
                               ELSE t_base_seq
                candidates == SelectSeq(rs, LAMBDA r :
                                 r.iters = iters /\ r.version = version)
            IN [i \in 1..Len(candidates) |->
                    WeakRow(candidates[i], base_n, t_base_seq, t_base_self)]
               \o <<BaselineRow(baseline, base_n, t_base_seq, t_base_self)>>

RECURSIVE Concat(_)
Concat(ss) == IF Len(ss) = 0 THEN <<>> ELSE Head(ss) \o Concat(Tail(ss))

\* `out` of _weak_metrics before the deduplication.
WeakOut(rs) ==
    LET iters_set == SortedInts({r.iters : r \in Range(rs)})
        versions == SelectSeq(VersionsSorted, LAMBDA v : \E r \in Range(rs) : r.version = v)
    IN Concat([i \in 1..Len(iters_set) |->
           Concat([j \in 1..Len(versions) |-> WeakGroup(rs, iters_set[i], versions[j])])])

MetricKey(m) == <<m.mode, m.version, m.n_bats, m.iters, m.procs, m.threads>>

\* uniq[key] = m for each m in order; list(uniq.values()).
RECURSIVE Dedup(_)
Dedup(ms) ==
    IF Len(ms) = 0 THEN <<>>
    ELSE LET init == Dedup(SubSeq(ms, 1, Len(ms) - 1))
             m == ms[Len(ms)]
         IN IF \E i \in 1..Len(init) : MetricKey(init[i]) = MetricKey(m)
            THEN [i \in 1..Len(init) |->
                     IF MetricKey(init[i]) = MetricKey(m) THEN m ELSE init[i]]
            ELSE Append(init, m)

_weak_metrics(rs) == Dedup(WeakOut(rs))

compute_metrics_weak_first(rs) == _weak_metrics(rs) \o _strong_metrics(rs)

compute_metrics(rs) == _strong_metrics(rs) \o _weak_metrics(rs)

-----------------------------------------------------------------------------
\* Inputs

Txt(n) == <<DigitChars[n + 1]>>

MkLine(head, version, n_bats, iters, procs, threads, time_s) ==
    [head |-> head, version |-> version, n_bats |-> n_bats, iters |-> iters,
     procs |-> procs, threads |-> threads, time_s |-> time_s]

NBatsDom == {1, 2}
ParDom == {0, 1, 2}
SeqTimeDom == {1, 2}
ParTimeDom == {0, 1}

\* Well-formed records of the three benchmarked programs.
BenchLines ==
    {MkLine("BENCH", "sequential", Txt(n), Txt(1), Txt(1), Txt(1), Txt(t)) :
        n \in NBatsDom, t \in SeqTimeDom}
    \cup {MkLine("BENCH", "openmp", Txt(n), Txt(1), Txt(1), Txt(k), Txt(t)) :
        n \in NBatsDom, k \in ParDom, t \in ParTimeDom}
    \cup {MkLine("BENCH", "mpi", Txt(1), Txt(1), Txt(k), Txt(1), Txt(t)) :
        k \in ParDom \ {0}, t \in ParTimeDom}
    \cup {MkLine("BENCH", "sequential", Txt(1), Txt(2), Txt(1), Txt(1), Txt(1)),
          MkLine("BENCH", "openmp", Txt(1), Txt(2), Txt(1), Txt(1), Txt(1))}

\* Log lines of any shape: other labels, zero counts, texts that are no numbers.
LogLines ==
    {MkLine("BENCH", v, Txt(1), Txt(1), Txt(k), Txt(h), t) :
        v \in {"sequential", "openmp", "mpi", "cuda"}, k \in {0, 1}, h \in {0, 2},
        t \in {<<"1">>, <<"1", ".", "2", ".", "3">>}}
    \cup {MkLine("INFO", "mpi", Txt(1), Txt(1), Txt(1), Txt(1), <<"1">>),
          MkLine("BENCH", "", Txt(1), Txt(1), Txt(1), Txt(1), <<"1">>),
          MkLine("BENCH", "mpi", <<"x">>, Txt(1), Txt(1), Txt(1), <<"1">>),
          MkLine("BENCH", "mpi", Txt(1), Txt(1), Txt(1), Txt(1), <<"-", "1">>),
          MkLine("BENCH", "mpi", Txt(1), Txt(1), Txt(1), Txt(1), <<".">>),
          MkLine("BENCH", "mpi", Txt(1), Txt(1), Txt(1), Txt(1), <<"0", ".", "5">>)}

SeqsUpTo(S, n) == UNION {[1..k -> S] : k \in 0..n}

-----------------------------------------------------------------------------
\* main

NoCsv == [written |-> FALSE, rows |-> <<>>]

Start ==
    /\ pc = "start"
    /\ rows = <<>>
    /\ out = <<>>
    /\ metrics = <<>>
    /\ csv = NoCsv
    /\ err = "none"

Init == lines \in SeqsUpTo(BenchLines, MaxLines) /\ Start

InitLog == lines \in SeqsUpTo(LogLines, MaxParseLines) /\ Start

\* rows = parse_lines(f)
ParseLines ==
    /\ pc = "start"
    /\ LET res == parse_lines(lines) IN
       /\ rows' = res.rows
       /\ err' = res.err
       /\ pc' = IF res.err = "none" THEN "parsed" ELSE "failed"
    /\ UNCHANGED <<lines, out, metrics, csv>>

NoBenchLines_or_no_sequential ==
    /\ pc = "parsed"
    /\ \A i \in 1..Len(rows) : rows[i].version # "sequential"
    /\ err' = "SystemExit"
    /\ pc' = "failed"
    /\ UNCHANGED <<lines, rows, out, metrics, csv>>

\* if not rows: raise SystemExit("No BENCH lines found in input.")
NoBenchLines ==
    /\ pc = "parsed"
    /\ Len(rows) = 0
    /\ err' = "SystemExit"
    /\ pc' = "failed"
    /\ UNCHANGED <<lines, rows, out, metrics, csv>>

\* metrics = compute_metrics(rows)
ComputeMetrics ==
    /\ pc = "parsed"
    /\ Len(rows) > 0
    /\ out' = WeakOut(rows)
    /\ metrics' = compute_metrics(rows)
    /\ pc' = "computed"
    /\ UNCHANGED <<lines, rows, csv, err>>

\* the rows are written to bench_metrics.csv
WriteCsv ==
    /\ pc = "computed"
    /\ csv' = [written |-> TRUE, rows |-> metrics]
    /\ pc' = "done"
    /\ UNCHANGED <<lines, rows, out, metrics, err>>

Next == ParseLines \/ NoBenchLines \/ ComputeMetrics \/ WriteCsv

Spec == Init /\ [][Next]_vars

\* The same program run on log lines of any shape.
SpecLog == InitLog /\ [][Next]_vars

-----------------------------------------------------------------------------
\* Properties

Computed == pc \in {"computed", "done"}

OfMode(mode) == SelectSeq(metrics, LAMBDA m : m.mode = mode)

ByVersion(version, procs, threads) ==
    IF version = "openmp" THEN threads ELSE IF version = "mpi" THEN procs ELSE 1

\* C1 (as stated): every parsed BenchRow has p >= 1, and p is threads for
\* openmp, procs for mpi and 1 for every other version.
C1_Original ==
    \A r \in Range(rows) :
        p(r) >= 1 /\ p(r) = ByVersion(r.version, r.procs, r.threads)

\* C1 (amended): every parsed BenchRow has p >= 0, p is threads for openmp,
\* procs for mpi and 1 for every other version, and p is 0 exactly for an
\* openmp record with threads=0 or an mpi record with procs=0; the p column
\* of every metric row follows the same rule.
C1_ParallelismByVersion ==
    /\ \A r \in Range(rows) :
          /\ p(r) >= 0
          /\ p(r) = ByVersion(r.version, r.procs, r.threads)
          /\ p(r) = 0 <=> \/ r.version = "openmp" /\ r.threads = 0
                          \/ r.version = "mpi" /\ r.procs = 0
    /\ \A m \in Range(metrics) : m.p = ByVersion(m.version, m.procs, m.threads)

C1_Witness ==
    /\ Computed
    /\ \E r \in Range(rows) : r.version = "openmp" /\ r.threads = 2 /\ r.procs # 2
    /\ \E r \in Range(rows) : r.version = "cuda" /\ r.threads = 2

NoSequential ==
    Len(rows) > 0 /\ \A r \in Range(rows) : r.version # "sequential"

C3_Original ==
    Computed =>
        /\ \A i, j \in 1..Len(OfMode("weak")) :
              MetricKey(OfMode("weak")[i]) = MetricKey(OfMode("weak")[j]) => i = j
        /\ \A i, j \in 1..Len(out) :
              MetricKey(out[i]) = MetricKey(out[j]) => out[i] = out[j]

Ratios(m) == {m.speedup, m.efficiency, m.speedup_seq, m.efficiency_seq,
              m.speedup_self, m.efficiency_self}

\* C4 (as stated): every metric row with time_s <= 0, the synthesized weak
\* baseline row included, has speedup 0.0 and efficiency 0.0 in the generic,
\* _seq and _self pairs, and computing the metrics raises no fault.
C4_Original ==
    Computed =>
        /\ err = "none"
        /\ \A m \in Range(metrics) : ~RatPos(m.time_s) => Ratios(m) = {Zero}

\* A weak row that has the shape of a synthesized baseline row: the row of a
\* p = 1 record that is its own baseline, with every ratio 1.0.
BaselineShaped(m) ==
    /\ m.mode = "weak"
    /\ Ratios(m) = {One}
    /\ m.p = 1
    /\ m.baseline_n_bats = m.n_bats
    /\ m.T_base_s = m.time_s
    /\ \E r \in Range(rows) :
          /\ p(r) = 1
          /\ <<r.version, r.n_bats, r.iters, r.procs, r.threads, r.time_s>>
               = <<m.version, m.n_bats, m.iters, m.procs, m.threads, m.time_s>>

\* C4 (amended): every strong row with time_s <= 0 has 0.0 in the three
\* speedup/efficiency pairs; a weak row with time_s <= 0 has 0.0 in the three
\* pairs unless it is the synthesized baseline row, which has 1.0 in all of
\* them; computing the metrics raises no fault.
C4_ZeroTimeGuard ==
    Computed =>
        /\ err = "none"
        /\ \A m \in Range(metrics) :
              ~RatPos(m.time_s) =>
                 \/ Ratios(m) = {Zero}
                 \/ BaselineShaped(m)
        /\ \A m \in Range(out) :
              ~RatPos(m.time_s) => Ratios(m) = {Zero} \/ BaselineShaped(m)

C4_Witness ==
    /\ Computed
    /\ \E m \in Range(metrics) :
          m.mode = "strong" /\ ~RatPos(m.time_s) /\ Ratios(m) = {Zero}
    /\ \E m \in Range(metrics) :
          m.mode = "weak" /\ ~RatPos(m.time_s) /\ Ratios(m) = {Zero}
          /\ RatPos(m.T_base_s)

HasP1At(version, n_bats, iters) ==
    \E r \in Range(rows) :
        r.version = version /\ r.n_bats = n_bats /\ r.iters = iters /\ p(r) = 1

HasP1AtIters(version, iters) ==
    \E r \in Range(rows) : r.version = version /\ r.iters = iters /\ p(r) = 1

SelfEqualsSeq(m) ==
    m.speedup_self = m.speedup_seq /\ m.efficiency_self = m.efficiency_seq

\* C5 (as stated): if a version has no record with p = 1 at (n_bats, iters),
\* every metric row of that version and size, strong or weak, has
\* speedup_self = speedup_seq and efficiency_self = efficiency_seq.
C5_Original ==
    \A m \in Range(metrics) :
        ~HasP1At(m.version, m.n_bats, m.iters) => SelfEqualsSeq(m)

\* C5 (amended): a strong row whose version has no p = 1 record at the row's
\* (n_bats, iters), and a weak row whose version has no p = 1 record at the
\* row's iters (whatever the n_bats), has T_self1_s = T_seq1_s,
\* speedup_self = speedup_seq and efficiency_self = efficiency_seq.
C5_SelfBaselineFallback ==
    \A m \in Range(metrics) :
        /\ m.mode = "strong" /\ ~HasP1At(m.version, m.n_bats, m.iters)
              => SelfEqualsSeq(m) /\ m.T_self1_s = m.T_seq1_s
        /\ m.mode = "weak" /\ ~HasP1AtIters(m.version, m.iters)
              => SelfEqualsSeq(m) /\ m.T_self1_s = m.T_seq1_s

C5_Witness ==
    /\ Computed
    /\ \E m \in Range(metrics) :
          /\ m.mode = "strong"
          /\ ~HasP1At(m.version, m.n_bats, m.iters)
          /\ RatPos(m.speedup_self)
    /\ \E m \in Range(metrics) :
          /\ m.mode = "weak"
          /\ ~HasP1AtIters(m.version, m.iters)
          /\ RatPos(m.speedup_self)

\* e * k = s on rationals.
TimesIs(e, k, s) == e.num * k * s.den = s.num * e.den

EfficiencyIsSpeedupOverP(m) ==
    /\ TimesIs(m.efficiency_seq, m.p, m.speedup_seq)
    /\ TimesIs(m.efficiency_self, m.p, m.speedup_self)
    /\ TimesIs(m.efficiency, m.p, m.speedup)

\* C6 (as stated): in every strong row efficiency_seq = speedup_seq / p,
\* efficiency_self = speedup_self / p and efficiency = speedup / p.
C6_Original ==
    \A m \in Range(OfMode("strong")) : EfficiencyIsSpeedupOverP(m)

\* C6 (amended): in every strong row with p >= 1, efficiency_seq =
\* speedup_seq / p, efficiency_self = speedup_self / p and efficiency =
\* speedup / p; in a strong row with p = 0 the three efficiencies are 0.0.
C6_StrongEfficiency ==
    \A m \in Range(OfMode("strong")) :
        /\ m.p >= 1 => EfficiencyIsSpeedupOverP(m)
        /\ m.p < 1 => {m.efficiency, m.efficiency_seq, m.efficiency_self} = {Zero}

C6_Witness ==
    /\ Computed
    /\ \E m \in Range(OfMode("strong")) : m.p = 2 /\ RatPos(m.speedup_seq)
    /\ \E m \in Range(OfMode("strong")) : m.p = 0 /\ RatPos(m.speedup_seq)

WellFormed(l) == BENCH_RE(l) /\ FloatOk(l.time_s)

\* C7 (as stated): a line that is no well-formed BENCH record, one whose
\* time_s text is not a valid float included, is skipped without an error
\* and the rows are exactly those of the well-formed lines, in order.
C7_Original ==
    pc # "start" =>
        /\ err # "ValueError"
        /\ LET good == SelectSeq(lines, WellFormed)
           IN rows = [i \in 1..Len(good) |-> BenchRow(good[i])]

RecordOf(m) ==
    [version |-> m.version, n_bats |-> m.n_bats, iters |-> m.iters,
     procs |-> m.procs, threads |-> m.threads, time_s |-> m.time_s]

SequentialAt(n_bats, iters) ==
    {r \in Range(rows) :
        r.version = "sequential" /\ r.n_bats = n_bats /\ r.iters = iters}

DistinctP(version, n_bats, iters) ==
    {p(r) : r \in {x \in Range(rows) :
        x.version = version /\ x.n_bats = n_bats /\ x.iters = iters}}

YieldsStrongRow(r) ==
    /\ SequentialAt(r.n_bats, r.iters) # {}
    /\ \/ r.version = "sequential"
       \/ Cardinality(DistinctP(r.version, r.n_bats, r.iters)) >= 2

\* C8: the strong rows are, in input order, the rows of exactly those
\* records that have a sequential record at their (n_bats, iters) and are
\* sequential themselves or belong to a (version, n_bats, iters) group with
\* at least two distinct p; no error is raised for the records left out.
C8_StrongRowsExactly ==
    Computed =>
        /\ err = "none"
        /\ LET strong == OfMode("strong")
               kept == SelectSeq(rows, YieldsStrongRow)
           IN [i \in 1..Len(strong) |-> RecordOf(strong[i])] = kept

C8_Witness ==
    /\ Computed
    /\ \E m \in Range(OfMode("strong")) : m.version # "sequential"
    /\ \E m \in Range(OfMode("strong")) : m.version = "sequential"

SequentialAtIters(iters) ==
    {r \in Range(rows) : r.version = "sequential" /\ r.iters = iters}

OwnP1AtIters(version, iters) ==
    {r \in Range(rows) : r.version = version /\ r.iters = iters /\ p(r) = 1}

\* m takes its weak baseline from a record of S with the smallest n_bats.
BaselineFrom(m, S) ==
    \E b \in S :
        /\ \A r \in S : b.n_bats <= r.n_bats
        /\ m.baseline_n_bats = b.n_bats
        /\ m.T_base_s = b.time_s

\* m is a row of the configuration of record r.
SameRun(m, r) ==
    <<m.version, m.n_bats, m.iters, m.procs, m.threads>>
        = <<r.version, r.n_bats, r.iters, r.procs, r.threads>>

WeakRowsOf(version, iters) ==
    {m \in Range(OfMode("weak")) : m.version = version /\ m.iters = iters}

\* C9: for every (iters, version) group with version # sequential, the weak
\* rows take T_base_s and baseline_n_bats from a sequential record at that
\* iters with the smallest n_bats when one exists, else from the version's
\* own p = 1 record at that iters with the smallest n_bats, and when there
\* is neither the group has no weak row at all.
C9_WeakBaselineChoice ==
    Computed =>
        \A x \in Range(rows) :
            x.version # "sequential" =>
                LET seq == SequentialAtIters(x.iters)
                    own == OwnP1AtIters(x.version, x.iters)
                    group == WeakRowsOf(x.version, x.iters)
                IN IF seq # {}
                   THEN /\ \A m \in group : BaselineFrom(m, seq)
                        /\ \E m \in group : SameRun(m, x)
                        /\ \E m \in WeakRowsOf("sequential", x.iters) :
                              RecordOf(m) \in seq /\ BaselineFrom(m, seq)
                   ELSE IF own # {}
                   THEN /\ \A m \in group : BaselineFrom(m, own)
                        /\ \E m \in group : SameRun(m, x)
                   ELSE group = {}

C9_Witness ==
    /\ Computed
    /\ \E m \in Range(OfMode("weak")) :
          /\ m.version = "openmp"
          /\ m.baseline_n_bats = 1
          /\ rows[1].version = "sequential" /\ rows[1].n_bats = 2
          /\ rows[1].iters = m.iters

IsMinTime(t, S) ==
    /\ \E r \in S : r.time_s = t
    /\ \A r \in S : ~RatLess(r.time_s, t)

AtNBats(S, n_bats) == {r \in S : r.n_bats = n_bats}

\* C10 (as stated): the baseline time of a metric row is the minimum time_s
\* among the records that match the baseline lookup: T_seq1_s and T_self1_s
\* of a strong row, and T_base_s of a weak row when several p = 1 records
\* share the smallest n_bats.
C10_Original ==
    Computed =>
        /\ \A m \in Range(OfMode("strong")) :
              /\ IsMinTime(m.T_seq1_s, SequentialAt(m.n_bats, m.iters))
              /\ HasP1At(m.version, m.n_bats, m.iters) =>
                    IsMinTime(m.T_self1_s,
                              AtNBats(OwnP1AtIters(m.version, m.iters), m.n_bats))
        /\ \A m \in Range(OfMode("weak")) :
              LET seq == SequentialAtIters(m.iters)
                  own == OwnP1AtIters(m.version, m.iters)
              IN IsMinTime(m.T_base_s,
                           AtNBats(IF seq # {} THEN seq ELSE own, m.baseline_n_bats))

\* The place of a version label in ascending string order.
Rank(version) == CHOOSE i \in 1..Len(VersionsSorted) : VersionsSorted[i] = version

\* a <= b on triples of integers, lexicographically.
LexLeq(a, b) ==
    \/ a[1] < b[1]
    \/ a[1] = b[1] /\ a[2] < b[2]
    \/ a[1] = b[1] /\ a[2] = b[2] /\ a[3] <= b[3]

StrongGroupKey(m) == <<Rank(m.version), m.n_bats, m.iters>>
WeakGroupKey(m) == <<m.iters, Rank(m.version), 0>>

StrongBeforeWeak ==
    \A i, j \in 1..Len(metrics) :
        i < j => ~(metrics[i].mode = "weak" /\ metrics[j].mode = "strong")

Reverse(s) == [i \in 1..Len(s) |-> s[Len(s) + 1 - i]]

\* C11 (as stated): the metrics are the strong rows followed by the weak
\* rows, the strong rows ascend by (version, n_bats, iters), the weak rows
\* ascend by (iters, version), and the same records in another line order
\* give the same row sequence.
C11_Original ==
    Computed =>
        /\ StrongBeforeWeak
        /\ \A i, j \in 1..Len(OfMode("strong")) :
              i < j => LexLeq(StrongGroupKey(OfMode("strong")[i]),
                              StrongGroupKey(OfMode("strong")[j]))
        /\ \A i, j \in 1..Len(OfMode("weak")) :
              i < j => LexLeq(WeakGroupKey(OfMode("weak")[i]),
                              WeakGroupKey(OfMode("weak")[j]))
        /\ compute_metrics(Reverse(rows)) = metrics

\* The first input record of the configuration of row m.
FirstRun(m) == CHOOSE k \in 1..Len(rows) :
                  SameRun(m, rows[k]) /\ \A h \in 1..(k - 1) : ~SameRun(m, rows[h])

\* The smallest version label of the input other than sequential.
FirstVersion ==
    CHOOSE v \in {r.version : r \in Range(rows)} \ {"sequential"} :
        \A r \in Range(rows) : r.version # "sequential" => Rank(v) <= Rank(r.version)

\* C11 (amended): the metrics are the strong rows followed by the weak rows;
\* the strong rows are in input line order; the weak rows of the versions
\* other than sequential ascend by (iters, version) and, within one group,
\* follow the input order of the first record of each configuration; the
\* synthesized sequential baseline row of an iters comes right after the rows
\* that the first version other than sequential (in ascending order of the
\* labels in the input) has at that iters, and before those of the others.
C11_RowOrder ==
    Computed =>
        LET strong == OfMode("strong")
            weak == OfMode("weak")
            par == SelectSeq(weak, LAMBDA m : m.version # "sequential")
        IN /\ StrongBeforeWeak
           /\ metrics = strong \o weak
           /\ \E f \in [1..Len(strong) -> 1..Len(rows)] :
                 /\ \A i, j \in 1..Len(strong) : i < j => f[i] < f[j]
                 /\ \A i \in 1..Len(strong) : RecordOf(strong[i]) = rows[f[i]]
           /\ \A i, j \in 1..Len(par) :
                 i < j =>
                    /\ LexLeq(WeakGroupKey(par[i]), WeakGroupKey(par[j]))
                    /\ WeakGroupKey(par[i]) = WeakGroupKey(par[j])
                          => FirstRun(par[i]) < FirstRun(par[j])
           /\ \A i, j \in 1..Len(weak) :
                 /\ weak[j].version = "sequential"
                 /\ weak[i].version # "sequential"
                 /\ weak[i].iters = weak[j].iters
                 => (i < j <=> weak[i].version = FirstVersion)

C11_Witness ==
    /\ Computed
    /\ \E i, j \in 1..Len(OfMode("strong")) :
          /\ i < j
          /\ ~LexLeq(StrongGroupKey(OfMode("strong")[i]),
                     StrongGroupKey(OfMode("strong")[j]))
    /\ \E i, j \in 1..Len(OfMode("weak")) :
          /\ i < j
          /\ OfMode("weak")[i].version = "openmp"
          /\ OfMode("weak")[j].version = "openmp"
    /\ \E m \in Range(OfMode("weak")) : m.version = "sequential"

====
